---- MODULE Spec2Model ----
(***************************************************************************)
(* A model of scripts/gradio_demo.py: the request handler infer, which     *)
(* normalises the uploaded image, builds the diptych composite and its     *)
(* mask, calls the FLUX fill pipeline once, crops the right half of what   *)
(* the pipeline returns and saves it under a name derived from the number  *)
(* of entries of the output directory.                                     *)
(*                                                                         *)
(* Images are modelled by their size and their columns: px[x + 1] is what  *)
(* column x holds.  Sizes are the real ones (the normalised width is 512). *)
(* The height arithmetic of line 57-58 is done in IEEE-754 double          *)
(* precision, as Python does it, on bit strings.                           *)
(***************************************************************************)
EXTENDS Integers, Sequences, FiniteSets, TLC

\* ---------------------------------------------------------------- bounds
MaxReq == 2            \* requests started in one run of SpecSeq
MaxInitEntries == 1    \* entries the output directory may hold initially

\* ------------------------------------------------------ program constants
MAX_SEED == 2147483647         \* np.iinfo(np.int32).max
new_width == 512
HeightMultiple == 8
MaskRight == 255
MaskLeft == 0

\* ------------------------------------------ IEEE-754 double arithmetic
\* A positive double is [m |-> <53 bits, most significant first>, e |-> the
\* exponent of the last bit].  Long numbers are handled in 8-bit limbs.
MANT_DIG == 53
LimbBits == 8
LimbBase == 256
DivLimbCount == 10

Pow2 == <<1, 2, 4, 8, 16, 32, 64, 128>>

RECURSIVE DivLimbs(_, _, _)
DivLimbs(r, d, n) ==
    IF n = 0 THEN <<>>
    ELSE <<(r * LimbBase) \div d>> \o DivLimbs((r * LimbBase) % d, d, n - 1)

RECURSIVE DivRem(_, _, _)
DivRem(r, d, n) == IF n = 0 THEN r ELSE DivRem((r * LimbBase) % d, d, n - 1)

LimbsToBits(limbs) ==
    [i \in 1..(LimbBits * Len(limbs)) |->
        (limbs[((i - 1) \div LimbBits) + 1] \div Pow2[LimbBits - ((i - 1) % LimbBits)]) % 2]

BitsToLimbs(bits) ==
    LET pad == (LimbBits - (Len(bits) % LimbBits)) % LimbBits
        b(i) == IF i <= pad THEN 0 ELSE bits[i - pad]
    IN  [k \in 1..((Len(bits) + pad) \div LimbBits) |->
            LET o == (k - 1) * LimbBits
            IN  b(o + 1) * 128 + b(o + 2) * 64 + b(o + 3) * 32 + b(o + 4) * 16
                + b(o + 5) * 8 + b(o + 6) * 4 + b(o + 7) * 2 + b(o + 8)]

StripZeros(bits) ==
    IF \A i \in 1..Len(bits) : bits[i] = 0 THEN <<>>
    ELSE LET p == CHOOSE i \in 1..Len(bits) : bits[i] = 1 /\ \A j \in 1..(i - 1) : bits[j] = 0
         IN  SubSeq(bits, p, Len(bits))

IncBits(bits) ==
    IF \A i \in 1..Len(bits) : bits[i] = 1
    THEN <<1>> \o [i \in 1..Len(bits) |-> 0]
    ELSE LET z == CHOOSE i \in 1..Len(bits) : bits[i] = 0 /\ \A j \in (i + 1)..Len(bits) : bits[j] = 1
         IN  [i \in 1..Len(bits) |-> IF i < z THEN bits[i] ELSE IF i = z THEN 1 ELSE 0]

RoundBits(bits, e, stickyIn) ==
    IF Len(bits) <= MANT_DIG THEN [m |-> bits, e |-> e]
    ELSE LET keep   == SubSeq(bits, 1, MANT_DIG)
             guard  == bits[MANT_DIG + 1]
             sticky == stickyIn \/ \E i \in (MANT_DIG + 2)..Len(bits) : bits[i] = 1
             up     == guard = 1 /\ (sticky \/ keep[MANT_DIG] = 1)
             inc    == IncBits(keep)
             e2     == e + (Len(bits) - MANT_DIG)
         IN  IF ~up THEN [m |-> keep, e |-> e2]
             ELSE IF Len(inc) > MANT_DIG THEN [m |-> SubSeq(inc, 1, MANT_DIG), e |-> e2 + 1]
             ELSE [m |-> inc, e |-> e2]

FloatDiv(a, b) ==
    LET d    == b * 1024
        bits == LimbsToBits(DivLimbs(a, d, DivLimbCount))
        rem  == DivRem(a, d, DivLimbCount)
    IN  RoundBits(StripZeros(bits), 10 - LimbBits * DivLimbCount, rem # 0)

RECURSIVE MulLimbs(_, _, _)
MulLimbs(limbs, k, carry) ==
    IF limbs = <<>> THEN <<carry \div LimbBase, carry % LimbBase>>
    ELSE LET t == limbs[Len(limbs)] * k + carry
         IN  MulLimbs(SubSeq(limbs, 1, Len(limbs) - 1), k, t \div LimbBase) \o <<t % LimbBase>>

FloatMulInt(k, f) ==
    RoundBits(StripZeros(LimbsToBits(MulLimbs(BitsToLimbs(f.m), k, 0))), f.e, FALSE)

RECURSIVE LimbsInt(_)
LimbsInt(limbs) ==
    IF limbs = <<>> THEN 0
    ELSE LimbBase * LimbsInt(SubSeq(limbs, 1, Len(limbs) - 1)) + limbs[Len(limbs)]

FloatToInt(f) ==
    IF f.e >= 0 \/ Len(f.m) + f.e <= 0 THEN 0
    ELSE LimbsInt(BitsToLimbs(SubSeq(f.m, 1, Len(f.m) + f.e)))



\* ------------------------------------------------------------- images
NoImage == [size |-> <<0, 0>>, px |-> <<>>]
BLACK == <<"black", 0>>

\* an uploaded image: column x holds the source's column x
SourceImage(size) == [size |-> size, px |-> [x \in 1..size[1] |-> <<"src", x - 1>>]]

\* what the pipeline generates: column x holds generated column x
GeneratedImage(size) == [size |-> size, px |-> [x \in 1..size[1] |-> <<"gen", x - 1>>]]

\* Image.resize: a copy when the size is unchanged, resampled columns otherwise
Resize(img, size) ==
    IF img.size = size THEN img
    ELSE [size |-> size, px |-> [x \in 1..size[1] |-> <<"resampled", x - 1>>]]

\* Image.new("RGB", size): every pixel black
NewImage(size) == [size |-> size, px |-> [x \in 1..size[1] |-> BLACK]]

\* canvas.paste(img, (0, 0)): the columns img covers over the full height take
\* img's columns; a column img covers only in part is neither
Paste(canvas, img) ==
    [size |-> canvas.size,
     px   |-> [x \in 1..canvas.size[1] |->
                 IF x > img.size[1] THEN canvas.px[x]
                 ELSE IF img.size[2] >= canvas.size[2] THEN img.px[x]
                 ELSE <<"mixed", x - 1>>]]

\* image.crop((left, 0, right, lower)) on an image at least `right` wide
Crop(img, box) ==
    [size |-> <<box[3] - box[1], box[4] - box[2]>>,
     px   |-> SubSeq(img.px, box[1] + 1, box[3])]

\* ------------------------------------------- the arithmetic of infer
\* lines 57-59: scale = 512 / w ; int(h * scale) ; floored to a multiple of 8
NormalizedHeight(w, h) ==
    (FloatToInt(FloatMulInt(h, FloatDiv(new_width, w))) \div HeightMultiple) * HeightMultiple

\* line 65: int(512 * height / width); the quotient of two ints below 2^31,
\* correctly rounded and truncated, is their integer quotient
SecondResizeSize(width, height) == <<new_width, (new_width * height) \div width>>

\* line 66
CompositeSize(width, height) == <<width * 2, height>>

\* the mask with the boundary one column to the right
MaskImageOffByOne(width, height) ==
    [size |-> <<width * 2, height>>,
     px   |-> [x \in 1..(width * 2) |-> IF x - 1 > width THEN MaskRight ELSE MaskLeft]]

\* lines 68-70: zeros((height, width * 2)); [:, width:] = 255; fromarray
MaskImage(width, height) ==
    [size |-> <<width * 2, height>>,
     px   |-> [x \in 1..(width * 2) |-> IF x - 1 >= width THEN MaskRight ELSE MaskLeft]]

\* the seed drawn whatever randomize_seed says
ResolveSeedAlwaysDraws(seed, randomize_seed, drawn) == drawn

\* lines 73-74
ResolveSeed(seed, randomize_seed, drawn) == IF randomize_seed THEN drawn ELSE seed

\* the width keyword without the doubling
PipeSizeNotDoubled(width, height) == <<width, height>>

\* lines 80-81: the height and width keywords of the pipeline call
PipeSize(width, height) == <<width * 2, height>>

\* the box of the left half
CropBoxLeftHalf(w, h) == <<0, 0, w \div 2, h>>

\* line 88
CropBox(w, h) == <<w \div 2, 0, w, h>>

\* counting the result files only
ListIndexResultsOnly(names) == Cardinality({n \in names : n[1] = "result"})

\* line 92
ListIndex(names) == Cardinality(names)

\* a name without the index
ResultNameFixed(index) == <<"result", 0>>

\* line 93
ResultName(index) == <<"result", index>>


\* ------------------------------------------------------------- inputs
Procs == {1, 2}

\* sizes of uploaded images: width 512 with a height that is and is not a
\* multiple of 8, a downscale, an upscale with a height to floor, a square
\* whose scaled height 49 * (512 / 49) rounds below 512, and a strip whose
\* scaled height floors to 0
SourceSizes == {<<512, 512>>, <<512, 100>>, <<1024, 768>>, <<300, 200>>, <<49, 49>>, <<1024, 8>>}

\* seed, randomize_seed, width, height, enable_model_cpu_offload
Knobs == {<<5, FALSE, 1024, 1024, FALSE>>, <<666, TRUE, 512, 768, TRUE>>, <<5, TRUE, 1024, 1024, FALSE>>}

Request(size, k) ==
    [size |-> size, seed |-> k[1], randomize_seed |-> k[2], width |-> k[3], height |-> k[4],
     enable_model_cpu_offload |-> k[5]]

Requests == {Request(size, k) : size \in SourceSizes, k \in Knobs}

\* the requests of the runs with several requests
FewRequests ==
    {Request(<<1024, 768>>, <<5, FALSE, 1024, 1024, FALSE>>),
     Request(<<512, 100>>, <<666, TRUE, 512, 768, TRUE>>),
     Request(<<1024, 8>>, <<5, FALSE, 1024, 1024, FALSE>>)}

NoRequest == Request(<<0, 0>>, <<0, FALSE, 0, 0, FALSE>>)

\* values random.randint(0, MAX_SEED) may return
Draws == {0, 5, MAX_SEED}

\* sizes of the image the pipeline may return: the requested one, or another
OtherOutputSizes == {<<1023, 16>>}
PipeOutputSizes(requested) == {requested} \cup OtherOutputSizes

\* the output directory before the first request
InitNames == {<<"result", 0>>, <<"result", 1>>, <<"other", 0>>}
OldImage == [size |-> <<1, 1>>, px |-> <<<<"old", 0>>>>]
OldEntry(name) ==
    IF name[1] = "result" THEN [kind |-> "file", data |-> OldImage]
    ELSE [kind |-> "dir", data |-> NoImage]
Truncated == [kind |-> "file", data |-> NoImage]
InitEntries ==
    {[n \in names |-> OldEntry(n)] : names \in {ns \in SUBSET InitNames : Cardinality(ns) <= MaxInitEntries}}

NoReturn == [image |-> NoImage, seed |-> -1]
NoPipe == [built |-> 0, device |-> "none"]

\* -------------------------------------------------------------- state
VARIABLES
    pc,              \* the statement of infer each request is about to execute
    args,            \* the arguments infer was called with
    image, width, height, seed,        \* locals of infer (width, height, seed are its parameters, reassigned)
    combined_image, mask, index, pipe,
    warnings,        \* number of warning lines printed by the request
    pipeCalls,       \* the calls of pipe(...) made by the request, in order
    returned,        \* the value infer returned
    fault,           \* the statement that raised, for a request that failed
    snap,            \* the output directory when the request began
    dirKind,         \* what is at the path output_dir: "absent", "dir" or "file"
    entries,         \* the entries of the output directory, by name
    saveLog,         \* the saves completed, in order
    initial,         \* the output directory before the first request
    started          \* number of requests begun

locals == <<image, width, height, seed, combined_image, mask, index, pipe>>
observed == <<warnings, pipeCalls, returned, fault, snap, saveLog, started, initial>>
files == <<dirKind, entries>>
vars == <<pc, args, locals, observed, files>>

Init ==
    /\ pc = [p \in Procs |-> "idle"]
    /\ args = [p \in Procs |-> NoRequest]
    /\ image = [p \in Procs |-> NoImage]
    /\ width = [p \in Procs |-> 0]
    /\ height = [p \in Procs |-> 0]
    /\ seed = [p \in Procs |-> 0]
    /\ combined_image = [p \in Procs |-> NoImage]
    /\ mask = [p \in Procs |-> NoImage]
    /\ index = [p \in Procs |-> -1]
    /\ pipe = [p \in Procs |-> NoPipe]
    /\ warnings = [p \in Procs |-> 0]
    /\ pipeCalls = [p \in Procs |-> <<>>]
    /\ returned = [p \in Procs |-> NoReturn]
    /\ fault = [p \in Procs |-> "none"]
    /\ dirKind \in {"absent", "dir", "file"}
    /\ entries \in IF dirKind = "dir" THEN InitEntries ELSE {<<>>}
    /\ initial = [kind |-> dirKind, entries |-> entries]
    /\ snap = [p \in Procs |-> initial]
    /\ saveLog = <<>>
    /\ started = 0

Fail(p, stage) ==
    /\ pc' = [pc EXCEPT ![p] = "failed"]
    /\ fault' = [fault EXCEPT ![p] = stage]

\* the UI calls infer (lines 209-227, 29-42)
Call(p, reqs, limit) ==
    /\ pc[p] \in {"idle", "done", "failed"}
    /\ started < limit
    /\ \E r \in reqs :
        /\ args' = [args EXCEPT ![p] = r]
        /\ image' = [image EXCEPT ![p] = SourceImage(r.size)]
        /\ width' = [width EXCEPT ![p] = r.width]
        /\ height' = [height EXCEPT ![p] = r.height]
        /\ seed' = [seed EXCEPT ![p] = r.seed]
    /\ combined_image' = [combined_image EXCEPT ![p] = NoImage]
    /\ mask' = [mask EXCEPT ![p] = NoImage]
    /\ index' = [index EXCEPT ![p] = -1]
    /\ pipe' = [pipe EXCEPT ![p] = NoPipe]
    /\ warnings' = [warnings EXCEPT ![p] = 0]
    /\ pipeCalls' = [pipeCalls EXCEPT ![p] = <<>>]
    /\ returned' = [returned EXCEPT ![p] = NoReturn]
    /\ fault' = [fault EXCEPT ![p] = "none"]
    /\ snap' = [snap EXCEPT ![p] = [kind |-> dirKind, entries |-> entries]]
    /\ started' = started + 1
    /\ pc' = [pc EXCEPT ![p] = "construct"]
    /\ UNCHANGED <<files, saveLog, initial>>

\* lines 44-50: from_pretrained, load_lora_weights, offload or move to cuda
Construct(p) ==
    /\ pc[p] = "construct"
    /\ pipe' = [pipe EXCEPT ![p] =
                  [built |-> pipe[p].built + 1,
                   device |-> IF args[p].enable_model_cpu_offload THEN "offload" ELSE "cuda"]]
    /\ pc' = [pc EXCEPT ![p] = "normalize"]
    /\ UNCHANGED <<args, image, width, height, seed, combined_image, mask, index, observed, files>>

\* lines 44-50 raise (bad model or LoRA path, no memory on the device)
ConstructFault(p) ==
    /\ pc[p] = "construct"
    /\ Fail(p, "construct")
    /\ UNCHANGED <<args, locals, warnings, pipeCalls, returned, snap, saveLog, started, initial, files>>

\* lines 52-63
Normalize(p) ==
    /\ pc[p] = "normalize"
    /\ LET w == image[p].size[1]
           h == image[p].size[2]
           new_height == NormalizedHeight(w, h)
       IN  IF w # new_width
           THEN /\ new_height >= 1
                /\ image' = [image EXCEPT ![p] = Resize(image[p], <<new_width, new_height>>)]
                /\ warnings' = [warnings EXCEPT ![p] = warnings[p] + 2]
           ELSE UNCHANGED <<image, warnings>>
    /\ pc' = [pc EXCEPT ![p] = "compose"]
    /\ UNCHANGED <<args, width, height, seed, combined_image, mask, index, pipe,
                   pipeCalls, returned, fault, snap, saveLog, started, initial, files>>

\* line 60 raises: Image.resize rejects a height below 1, after the first
\* warning has been printed
NormalizeFault(p) ==
    /\ pc[p] = "normalize"
    /\ image[p].size[1] # new_width
    /\ NormalizedHeight(image[p].size[1], image[p].size[2]) < 1
    /\ warnings' = [warnings EXCEPT ![p] = warnings[p] + 1]
    /\ Fail(p, "resize")
    /\ UNCHANGED <<args, locals, pipeCalls, returned, snap, saveLog, started, initial, files>>

\* lines 64-71
Compose(p) ==
    /\ pc[p] = "compose"
    /\ LET w == image[p].size[1]
           h == image[p].size[2]
           resized == Resize(image[p], SecondResizeSize(w, h))
       IN  /\ width' = [width EXCEPT ![p] = w]
           /\ height' = [height EXCEPT ![p] = h]
           /\ image' = [image EXCEPT ![p] = resized]
           /\ combined_image' = [combined_image EXCEPT ![p] = Paste(NewImage(CompositeSize(w, h)), resized)]
           /\ mask' = [mask EXCEPT ![p] = MaskImage(w, h)]
    /\ pc' = [pc EXCEPT ![p] = "seed"]
    /\ UNCHANGED <<args, seed, index, pipe, observed, files>>

\* lines 73-74
Reseed(p) ==
    /\ pc[p] = "seed"
    /\ \E drawn \in Draws :
        seed' = [seed EXCEPT ![p] = ResolveSeed(seed[p], args[p].randomize_seed, drawn)]
    /\ pc' = [pc EXCEPT ![p] = "pipe"]
    /\ UNCHANGED <<args, image, width, height, combined_image, mask, index, pipe, observed, files>>

\* the keywords of the call and the size of the image it returned (<<0, 0>>
\* for a call that raised)
PipeCallRecord(p, returned_size) ==
    [image_size |-> combined_image[p].size, mask_size |-> mask[p].size,
     width |-> PipeSize(width[p], height[p])[1], height |-> PipeSize(width[p], height[p])[2],
     generator_seed |-> seed[p], returned_size |-> returned_size]

\* lines 76-85: the call returns an image
PipeCall(p) ==
    /\ pc[p] = "pipe"
    /\ \E size \in PipeOutputSizes(PipeSize(width[p], height[p])) :
        /\ pipeCalls' = [pipeCalls EXCEPT ![p] = Append(pipeCalls[p], PipeCallRecord(p, size))]
        /\ image' = [image EXCEPT ![p] = GeneratedImage(size)]
    /\ pc' = [pc EXCEPT ![p] = "crop"]
    /\ UNCHANGED <<args, width, height, seed, combined_image, mask, index, pipe,
                   warnings, returned, fault, snap, saveLog, started, initial, files>>

\* a call that raised is made once more before the request fails
PipeFaultRetried(p) ==
    /\ pc[p] = "pipe"
    /\ pipeCalls' = [pipeCalls EXCEPT ![p] = Append(pipeCalls[p], PipeCallRecord(p, <<0, 0>>))]
    /\ IF Len(pipeCalls[p]) = 0
       THEN UNCHANGED <<pc, fault>>
       ELSE Fail(p, "pipe")
    /\ UNCHANGED <<args, locals, warnings, returned, snap, saveLog, started, initial, files>>

\* lines 76-85: the call raises
PipeFault(p) ==
    /\ pc[p] = "pipe"
    /\ pipeCalls' = [pipeCalls EXCEPT ![p] = Append(pipeCalls[p], PipeCallRecord(p, <<0, 0>>))]
    /\ Fail(p, "pipe")
    /\ UNCHANGED <<args, locals, warnings, returned, snap, saveLog, started, initial, files>>

\* lines 87-88
CropStep(p) ==
    /\ pc[p] = "crop"
    /\ image' = [image EXCEPT ![p] = Crop(image[p], CropBox(image[p].size[1], image[p].size[2]))]
    /\ pc' = [pc EXCEPT ![p] = "makedirs"]
    /\ UNCHANGED <<args, width, height, seed, combined_image, mask, index, pipe, observed, files>>

\* line 90: os.makedirs(output_dir, exist_ok=True)
MakeDirs(p) ==
    /\ pc[p] = "makedirs"
    /\ dirKind \in {"absent", "dir"}
    /\ dirKind' = "dir"
    /\ pc' = [pc EXCEPT ![p] = "listdir"]
    /\ UNCHANGED <<args, locals, observed, entries>>

\* line 90 raises: the path is a regular file, or the directory cannot be created
MakeDirsFault(p) ==
    /\ pc[p] = "makedirs"
    /\ dirKind \in {"absent", "file"}
    /\ Fail(p, "makedirs")
    /\ UNCHANGED <<args, locals, warnings, pipeCalls, returned, snap, saveLog, started, initial, files>>

\* line 92
ListDir(p) ==
    /\ pc[p] = "listdir"
    /\ index' = [index EXCEPT ![p] = ListIndex(DOMAIN entries)]
    /\ pc' = [pc EXCEPT ![p] = "save"]
    /\ UNCHANGED <<args, image, width, height, seed, combined_image, mask, pipe, observed, files>>

WriteEntry(name, entry) ==
    [n \in (DOMAIN entries) \cup {name} |-> IF n = name THEN entry ELSE entries[n]]

\* a save that leaves a file of that name as it is
SaveKeepsExisting(p) ==
    /\ pc[p] = "save"
    /\ LET name == ResultName(index[p])
       IN  /\ entries' = IF name \in DOMAIN entries THEN entries
                         ELSE WriteEntry(name, [kind |-> "file", data |-> image[p]])
           /\ saveLog' = Append(saveLog, [proc |-> p, name |-> name, replaced |-> FALSE])
    /\ pc' = [pc EXCEPT ![p] = "return"]
    /\ UNCHANGED <<args, locals, warnings, pipeCalls, returned, fault, snap, started, initial, dirKind>>

\* line 93: the file is written, replacing a file of that name
Save(p) ==
    /\ pc[p] = "save"
    /\ LET name == ResultName(index[p])
       IN  /\ name \in DOMAIN entries => entries[name].kind = "file"
           /\ entries' = WriteEntry(name, [kind |-> "file", data |-> image[p]])
           /\ saveLog' = Append(saveLog, [proc |-> p, name |-> name, replaced |-> name \in DOMAIN entries])
    /\ pc' = [pc EXCEPT ![p] = "return"]
    /\ UNCHANGED <<args, locals, warnings, pipeCalls, returned, fault, snap, started, initial, dirKind>>

\* line 93 raises.  Image.save removes the file it created; a file that was
\* there before is left as it was when it could not be opened, emptied when
\* the write failed
SaveFault(p) ==
    /\ pc[p] = "save"
    /\ LET name == ResultName(index[p])
       IN  \E opened \in BOOLEAN :
              entries' = IF opened /\ name \in DOMAIN entries /\ entries[name].kind = "file"
                         THEN WriteEntry(name, Truncated)
                         ELSE entries
    /\ Fail(p, "save")
    /\ UNCHANGED <<args, locals, warnings, pipeCalls, returned, snap, saveLog, started, initial, dirKind>>

\* line 95
Return(p) ==
    /\ pc[p] = "return"
    /\ returned' = [returned EXCEPT ![p] = [image |-> image[p], seed |-> seed[p]]]
    /\ pc' = [pc EXCEPT ![p] = "done"]
    /\ UNCHANGED <<args, locals, warnings, pipeCalls, fault, snap, saveLog, started, initial, files>>

Step(p) ==
    \/ Construct(p) \/ ConstructFault(p)
    \/ Normalize(p) \/ NormalizeFault(p)
    \/ Compose(p)
    \/ Reseed(p)
    \/ PipeCall(p) \/ PipeFault(p)
    \/ CropStep(p)
    \/ MakeDirs(p) \/ MakeDirsFault(p)
    \/ ListDir(p)
    \/ Save(p) \/ SaveFault(p)
    \/ Return(p)

\* one request, any arguments, any initial directory
Next == Call(1, Requests, 1) \/ Step(1)
Spec == Init /\ [][Next]_vars

\* requests one at a time
NextSeq == Call(1, FewRequests, MaxReq) \/ Step(1)
SpecSeq == Init /\ [][NextSeq]_vars

\* two requests at once
NextConc == \E p \in Procs : (pc[p] = "idle" /\ Call(p, FewRequests, Cardinality(Procs))) \/ Step(p)
SpecConc == Init /\ [][NextConc]_vars


\* ------------------------------------------------------------ properties
FloorTo(n, k) == (n \div k) * k
Made(p) == Len(pipeCalls[p]) >= 1
TheCall(p) == pipeCalls[p][1]
Cropped(p) == pc[p] \in {"makedirs", "listdir", "save", "return", "done"}
Saved(p) == pc[p] \in {"return", "done"}
InitiallyEmpty == initial.entries = <<>> /\ initial.kind \in {"absent", "dir"}

\* C1: every composite handed to the pipeline is twice as wide as the
\* normalised image and has a height that is a multiple of 8, whatever the
\* size of the source (width 512 included).
C1_CompositeShape ==
    \A p \in Procs : Made(p) =>
        /\ TheCall(p).image_size[1] = 2 * width[p]
        /\ TheCall(p).image_size[2] % HeightMultiple = 0

\* C2: once infer has normalised the image, a source of size (w, h) with
\* w # 512 has become 512 wide and floor(h * 512 / w) floored to a multiple
\* of 8 high, and the resize warning was printed; a source with w = 512 is
\* untouched, size (512, h), and no warning was printed.
C2_Normalization ==
    \A p \in Procs : pc[p] = "compose" =>
        LET w == args[p].size[1]
            h == args[p].size[2]
        IN  IF w # new_width
            THEN /\ image[p].size = <<new_width, FloorTo((h * new_width) \div w, HeightMultiple)>>
                 /\ warnings[p] >= 1
            ELSE /\ image[p] = SourceImage(<<new_width, h>>)
                 /\ warnings[p] = 0

\* C3: for a normalised image of size (W, H) the composite has size (2W, H)
\* and holds the normalised image in columns [0, W); the mask has the same
\* size, is 0 in every column of [0, W) and 255 in every column of [W, 2W).
C3_Composition ==
    \A p \in Procs : pc[p] \in {"seed", "pipe"} =>
        LET W == image[p].size[1]
            H == image[p].size[2]
        IN  /\ combined_image[p].size = <<2 * W, H>>
            /\ Len(combined_image[p].px) = 2 * W
            /\ \A x \in 0..(W - 1) : combined_image[p].px[x + 1] = image[p].px[x + 1]
            /\ mask[p].size = combined_image[p].size
            /\ Len(mask[p].px) = 2 * W
            /\ \A x \in 0..(W - 1) : mask[p].px[x + 1] = 0
            /\ \A x \in W..(2 * W - 1) : mask[p].px[x + 1] = 255

C3_Witness ==
    /\ pc[1] = "pipe"
    /\ args[1].size = <<1024, 768>>
    /\ image[1].size = <<512, 384>>
    /\ combined_image[1].size = <<1024, 384>>
    /\ mask[1].px[512] = 0
    /\ mask[1].px[513] = 255

\* C4: the seed the generator is seeded with is the seed infer returns; it
\* is the supplied seed when randomize_seed is false, and a value of
\* [0, 2^31 - 1] drawn without regard to the supplied seed when it is true.
C4_Seed ==
    \A p \in Procs :
        /\ Made(p) =>
              /\ TheCall(p).generator_seed = seed[p]
              /\ ~args[p].randomize_seed => TheCall(p).generator_seed = args[p].seed
              /\ args[p].randomize_seed => TheCall(p).generator_seed \in 0..MAX_SEED
        /\ pc[p] = "done" => returned[p].seed = TheCall(p).generator_seed

C4_Witness ==
    /\ pc[1] = "done"
    /\ args[1].randomize_seed
    /\ args[1].seed = 666
    /\ returned[1].seed = MAX_SEED
    /\ TheCall(1).generator_seed = MAX_SEED

\* C5: what infer saves and returns is the right half of what the pipeline
\* returned: for an image of the requested size (2W, H) the box
\* (W, 0, 2W, H), columns [W, 2W) as they are; an image of any other size
\* (w, h) is not checked and is cut to the box (w div 2, 0, w, h).
C5_RightHalf ==
    \A p \in Procs : Cropped(p) =>
        LET w == TheCall(p).returned_size[1]
            h == TheCall(p).returned_size[2]
            left == w \div 2
        IN  /\ image[p].size = <<w - left, h>>
            /\ Len(image[p].px) = w - left
            /\ \A x \in 0..(w - left - 1) : image[p].px[x + 1] = <<"gen", left + x>>
            /\ TheCall(p).returned_size = <<2 * width[p], height[p]>> =>
                  /\ image[p].size = <<width[p], height[p]>>
                  /\ image[p].px[1] = <<"gen", width[p]>>
                  /\ image[p].px[width[p]] = <<"gen", 2 * width[p] - 1>>
            /\ Saved(p) => entries[ResultName(index[p])].data = image[p]
            /\ pc[p] = "done" => returned[p].image = image[p]

C5_Witness ==
    /\ pc[1] = "done"
    /\ TheCall(1).returned_size = <<1024, 384>>
    /\ returned[1].image.size = <<512, 384>>
    /\ returned[1].image.px[1] = <<"gen", 512>>
    /\ returned[1].image.px[512] = <<"gen", 1023>>

\* C6: the output directory exists once infer has saved; the result is in
\* result_N.png, where N is the number of entries of every name and kind
\* the directory held when it was listed, which is after the pipeline call
\* returned and, with no other writer, is the number it held when the
\* request began; no other entry is touched.
C6_Persistence ==
    \A p \in Procs :
        /\ index[p] # -1 => Made(p) /\ TheCall(p).returned_size # <<0, 0>>
        /\ Saved(p) =>
              LET N == Cardinality(DOMAIN snap[p].entries)
              IN  /\ dirKind = "dir"
                  /\ index[p] = N
                  /\ <<"result", N>> \in DOMAIN entries
                  /\ entries[<<"result", N>>] = [kind |-> "file", data |-> image[p]]
                  /\ saveLog[Len(saveLog)].name = <<"result", N>>
                  /\ DOMAIN entries = DOMAIN snap[p].entries \cup {<<"result", N>>}
                  /\ \A n \in DOMAIN snap[p].entries \ {<<"result", N>>} : entries[n] = snap[p].entries[n]

C6_Witness ==
    /\ pc[1] = "done"
    /\ snap[1].kind = "dir"
    /\ DOMAIN snap[1].entries = {<<"other", 0>>}
    /\ DOMAIN entries = {<<"other", 0>>, <<"result", 1>>}

\* the height of the normalised image, from the size of the source alone
ExpectedHeight(size) ==
    IF size[1] = new_width THEN size[2]
    ELSE FloorTo(FloatToInt(FloatMulInt(size[2], FloatDiv(new_width, size[1]))), HeightMultiple)

\* C7: a request builds the pipeline once and calls it once, after the
\* composite and the mask are made and before anything is cropped, listed
\* or saved, with width twice the normalised width and the normalised
\* height; the width and height infer was called with play no part.
C7_OneCall ==
    \A p \in Procs :
        /\ Len(pipeCalls[p]) <= 1
        /\ pipe[p].built <= 1
        /\ pc[p] \in {"idle", "construct", "normalize", "compose", "seed", "pipe"} => ~Made(p)
        /\ pc[p] \in {"crop", "makedirs", "listdir", "save", "return", "done"} =>
              Made(p) /\ pipe[p].built = 1
        /\ pc[p] \in {"pipe", "crop"} => index[p] = -1 /\ \A i \in 1..Len(saveLog) : saveLog[i].proc # p
        /\ Made(p) =>
              /\ combined_image[p] # NoImage /\ mask[p] # NoImage
              /\ TheCall(p).width = 2 * new_width
              /\ TheCall(p).height = ExpectedHeight(args[p].size)
              /\ <<TheCall(p).width, TheCall(p).height>> = combined_image[p].size

C7_Witness ==
    /\ pc[1] = "done"
    /\ args[1].width = 512 /\ args[1].height = 768
    /\ args[1].size = <<300, 200>>
    /\ TheCall(1).width = 1024 /\ TheCall(1).height = 336
    /\ pipe[1].built = 1

\* C8: a request that faults returns nothing and has called the pipeline at
\* most once; when the fault came before the save step (building the
\* pipeline, resizing, calling the pipeline) the output directory is as it
\* was when the request began: not created, nothing added or replaced.
C8_Fault ==
    \A p \in Procs : pc[p] = "failed" =>
        /\ returned[p] = NoReturn
        /\ Len(pipeCalls[p]) <= 1
        /\ \A i \in 1..Len(saveLog) : saveLog[i].proc # p
        /\ fault[p] \in {"construct", "resize", "pipe"} =>
              /\ dirKind = snap[p].kind
              /\ entries = snap[p].entries
              /\ index[p] = -1

C8_Witness ==
    /\ pc[1] = "failed"
    /\ fault[1] = "pipe"
    /\ Len(pipeCalls[1]) = 1
    /\ snap[1].kind = "absent"
    /\ dirKind = "absent"

\* C9: two requests at once can list the directory before either saves;
\* they then hold the same index N and write the same file result_N.png:
\* the second save replaces the first, the file holds the second's result,
\* and the directory has one entry more than the N they counted (none more
\* when result_N.png was already there).
C9_SameIndex ==
    (pc[1] = "done" /\ pc[2] = "done" /\ index[1] = index[2]) =>
        LET name == <<"result", index[1]>>
        IN  /\ Len(saveLog) = 2
            /\ saveLog[1].name = name /\ saveLog[2].name = name
            /\ saveLog[1].proc # saveLog[2].proc
            /\ saveLog[2].replaced
            /\ entries[name].data = returned[saveLog[2].proc].image
            /\ Cardinality(DOMAIN entries) =
                  index[1] + (IF name \in DOMAIN initial.entries THEN 0 ELSE 1)

C9_Witness ==
    /\ pc[1] = "done" /\ pc[2] = "done"
    /\ initial.entries = <<>>
    /\ index[1] = 0 /\ index[2] = 0
    /\ DOMAIN entries = {<<"result", 0>>}
    /\ returned[1].image # returned[2].image

\* C10: requests one at a time on a directory that began absent or empty:
\* the k-th save writes result_{k-1}.png, replaces nothing, and the
\* directory holds result_0.png .. result_{k-1}.png and nothing else.  A
\* directory that began with result_1.png alone has it replaced by the
\* first save.
C10_Sequential ==
    /\ InitiallyEmpty =>
          /\ \A k \in 1..Len(saveLog) :
                saveLog[k].name = <<"result", k - 1>> /\ ~saveLog[k].replaced
          /\ DOMAIN entries = {<<"result", k - 1>> : k \in 1..Len(saveLog)}
    /\ (DOMAIN initial.entries = {<<"result", 1>>} /\ Len(saveLog) >= 1) =>
          saveLog[1].name = <<"result", 1>> /\ saveLog[1].replaced

C10_Witness ==
    /\ InitiallyEmpty
    /\ Len(saveLog) = 2
    /\ saveLog[2].name = <<"result", 1>>
    /\ DOMAIN entries = {<<"result", 0>>, <<"result", 1>>}

====
